---- MODULE Spec2Model ----
(***************************************************************************)
(* Model of ApgRegrCalc (src/unnamed/part_000): the rounding utility, the  *)
(* determination coefficient, the Gaussian-elimination solver and the five *)
(* fit estimators.                                                         *)
(*                                                                         *)
(* Numbers.  A JavaScript number is modelled as a record with a tag t:     *)
(*   "fin"  : the real number (n/d) * (ln 2)^k * e^m, in lowest terms,     *)
(*            d > 0, and k = m = 0 when n = 0;                             *)
(*   "nan", "inf", "ninf" : NaN, +Infinity, -Infinity;                     *)
(*   "top"  : a number this model does not determine (a sum of unlike      *)
(*            transcendental terms, a logarithm of a number that is not a  *)
(*            power of two or of e, ...).  Every operation on "top" gives  *)
(*            "top" (or NaN where NaN is certain).                         *)
(* Arithmetic on "fin" values is exact real arithmetic: the rounding error *)
(* of IEEE doubles and the sign of zero are not modelled.                  *)
(* The absent y of a point is the record Null (tag "null").                *)
(*                                                                         *)
(* State.  call is the method that has run ("none" before); points,        *)
(* options, results, input and number are its arguments; ret is what it    *)
(* returned.  gaussianElimination works in the array it is handed, so      *)
(* input holds the eliminated matrix after the call, and system keeps the  *)
(* equations as they were handed over.                                     *)
(***************************************************************************)
EXTENDS Integers, Sequences, FiniteSets, TLC

VARIABLES call, points, options, results, input, system, number, ret

vars == <<call, points, options, results, input, system, number, ret>>

----------------------------------------------------------------------------
(* Integer helpers                                                         *)

AbsI(i) == IF i < 0 THEN -i ELSE i

RECURSIVE Gcd(_, _)
Gcd(a, b) == IF b = 0 THEN a ELSE Gcd(b, a % b)

RECURSIVE PowI(_, _)
PowI(b, e) == IF e = 0 THEN 1 ELSE b * PowI(b, e - 1)

\* floor(n / d) for d > 0
Floor(n, d) == IF n >= 0 THEN n \div d ELSE -((-n + d - 1) \div d)

----------------------------------------------------------------------------
(* Number values                                                           *)

Special(tag) == [t |-> tag, n |-> 0, d |-> 1, k |-> 0, m |-> 0]

NaN == Special("nan")
Inf == Special("inf")
NInf == Special("ninf")
Top == Special("top")
Null == Special("null")

Fin(nn, dd, kk, mm) ==
    IF nn = 0 THEN [t |-> "fin", n |-> 0, d |-> 1, k |-> 0, m |-> 0]
    ELSE LET g == Gcd(AbsI(nn), AbsI(dd))
             s == IF dd < 0 THEN -1 ELSE 1
         IN [t |-> "fin", n |-> s * (nn \div g), d |-> s * (dd \div g),
             k |-> kk, m |-> mm]

Rat(nn, dd) == Fin(nn, dd, 0, 0)
Num(i) == Fin(i, 1, 0, 0)
Zero == Num(0)
One == Num(1)

IsFin(a) == a.t = "fin"
IsRat(a) == a.t = "fin" /\ a.k = 0 /\ a.m = 0
IsZero(a) == a.t = "fin" /\ a.n = 0
Sign(a) == IF a.n > 0 THEN 1 ELSE IF a.n < 0 THEN -1 ELSE 0

Neg(a) ==
    CASE a.t = "fin" -> [a EXCEPT !.n = -a.n]
      [] a.t = "inf" -> NInf
      [] a.t = "ninf" -> Inf
      [] OTHER -> a

Add(a, b) ==
    CASE a.t = "nan" \/ b.t = "nan" -> NaN
      [] a.t = "top" \/ b.t = "top" -> Top
      [] a.t = "inf" -> IF b.t = "ninf" THEN NaN ELSE Inf
      [] a.t = "ninf" -> IF b.t = "inf" THEN NaN ELSE NInf
      [] b.t = "inf" -> Inf
      [] b.t = "ninf" -> NInf
      [] a.n = 0 -> b
      [] b.n = 0 -> a
      [] a.k = b.k /\ a.m = b.m ->
           LET g == Gcd(a.d, b.d)
           IN Fin(a.n * (b.d \div g) + b.n * (a.d \div g), (a.d \div g) * b.d,
                  a.k, a.m)
      [] OTHER -> Top

Sub(a, b) == Add(a, Neg(b))

Mul(a, b) ==
    CASE a.t = "nan" \/ b.t = "nan" -> NaN
      [] a.t = "top" \/ b.t = "top" -> Top
      [] a.t \in {"inf", "ninf"} \/ b.t \in {"inf", "ninf"} ->
           LET sa == IF a.t = "inf" THEN 1 ELSE IF a.t = "ninf" THEN -1 ELSE Sign(a)
               sb == IF b.t = "inf" THEN 1 ELSE IF b.t = "ninf" THEN -1 ELSE Sign(b)
           IN IF sa * sb = 0 THEN NaN ELSE IF sa * sb > 0 THEN Inf ELSE NInf
      [] OTHER ->
           LET g1 == Gcd(AbsI(a.n), b.d)
               g2 == Gcd(AbsI(b.n), a.d)
           IN IF a.n = 0 \/ b.n = 0 THEN Zero
              ELSE Fin((a.n \div g1) * (b.n \div g2), (a.d \div g2) * (b.d \div g1),
                       a.k + b.k, a.m + b.m)

Div(a, b) ==
    CASE a.t = "nan" \/ b.t = "nan" -> NaN
      [] a.t = "top" \/ b.t = "top" -> Top
      [] a.t \in {"inf", "ninf"} ->
           IF b.t \in {"inf", "ninf"} THEN NaN
           ELSE IF (a.t = "inf") = (Sign(b) >= 0) THEN Inf ELSE NInf
      [] b.t \in {"inf", "ninf"} -> Zero
      [] b.n = 0 -> IF a.n = 0 THEN NaN ELSE IF a.n > 0 THEN Inf ELSE NInf
      [] a.n = 0 -> Zero
      [] OTHER ->
           LET g1 == Gcd(AbsI(a.n), AbsI(b.n))
               g2 == Gcd(a.d, b.d)
               s == IF b.n < 0 THEN -1 ELSE 1
           IN Fin(s * (a.n \div g1) * (b.d \div g2), (a.d \div g2) * (AbsI(b.n) \div g1),
                  a.k - b.k, a.m - b.m)

\* a < b for rational a, b
LessRat(a, b) == a.n * b.d < b.n * a.d

----------------------------------------------------------------------------
(* Math.log, Math.exp, the ** operator and Math.round                      *)

RECURSIVE Log2I(_)
\* the exponent j with 2^j = i when i is a power of two, -1 otherwise
Log2I(i) ==
    IF i = 1 THEN 0
    ELSE IF i < 1 \/ i % 2 = 1 THEN -1
    ELSE LET r == Log2I(i \div 2) IN IF r < 0 THEN -1 ELSE r + 1

IsPow2(a) ==
    IsRat(a) /\ a.n > 0 /\ (a.n = 1 \/ a.d = 1) /\ Log2I(a.n) >= 0 /\ Log2I(a.d) >= 0

\* the integer j with a = 2^j, for IsPow2(a)
Log2(a) == Log2I(a.n) - Log2I(a.d)

Pow2(j) == IF j >= 0 THEN Rat(PowI(2, j), 1) ELSE Rat(1, PowI(2, -j))

\* Math.log: ln(2^j * e^m) = m + j ln 2, exact when one of j, m is 0
MathLog(a) ==
    CASE a.t = "nan" -> NaN
      [] a.t = "top" -> Top
      [] a.t = "inf" -> Inf
      [] a.t = "ninf" -> NaN
      [] a.n < 0 -> NaN
      [] a.n = 0 -> NInf
      [] a.k = 0 /\ a.n = 1 /\ a.d = 1 -> Num(a.m)
      [] a.k = 0 /\ a.m = 0 /\ IsPow2(a) -> Fin(Log2(a), 1, 1, 0)
      [] OTHER -> Top

\* Math.exp: e^i and e^(j ln 2) = 2^j for integers i, j
MathExp(a) ==
    CASE a.t = "nan" -> NaN
      [] a.t = "top" -> Top
      [] a.t = "inf" -> Inf
      [] a.t = "ninf" -> Zero
      [] a.n = 0 -> One
      [] a.k = 0 /\ a.m = 0 /\ a.d = 1 -> Fin(1, 1, 0, a.n)
      [] a.k = 1 /\ a.m = 0 /\ a.d = 1 /\ AbsI(a.n) <= 20 -> Pow2(a.n)
      [] OTHER -> Top

RECURSIVE PowFin(_, _)
\* x * x * ... * x, e factors
PowFin(x, e) == IF e = 0 THEN One ELSE Mul(x, PowFin(x, e - 1))

\* x ** b
Pow(x, b) ==
    CASE b.t = "nan" -> NaN
      [] IsZero(b) -> One
      [] x.t = "nan" -> NaN
      [] x.t = "top" \/ b.t \in {"top", "inf", "ninf"} -> Top
      [] x.t = "inf" -> IF b.n > 0 THEN Inf ELSE Zero
      [] x.t = "ninf" -> Top
      [] IsRat(b) /\ b.d = 1 ->
           IF b.n > 0 THEN PowFin(x, b.n) ELSE Div(One, PowFin(x, -b.n))
      [] x.n = 0 -> IF b.n > 0 THEN Zero ELSE Inf
      [] x.n < 0 -> NaN
      [] x = One -> One
      [] IsRat(b) /\ IsPow2(x) /\ (Log2(x) * b.n) % b.d = 0 ->
           Pow2((Log2(x) * b.n) \div b.d)
      [] IsRat(b) /\ x.k = 0 /\ x.n = 1 /\ x.d = 1 /\ (x.m * b.n) % b.d = 0 ->
           Fin(1, 1, 0, (x.m * b.n) \div b.d)
      [] OTHER -> Top

\* Decimal brackets <<lo, hi>>, in units of 1/10000, of (ln 2)^k (m = 0) and of
\* e^m (k = 0): lo/10000 < value < hi/10000.  <<0, 0>> when not tabulated.
Bracket(k, m) ==
    CASE m = 0 /\ k = 1 -> <<6931, 6932>>
      [] m = 0 /\ k = 2 -> <<4804, 4805>>
      [] m = 0 /\ k = 3 -> <<3330, 3331>>
      [] m = 0 /\ k = -1 -> <<14426, 14427>>
      [] m = 0 /\ k = -2 -> <<20813, 20814>>
      [] k = 0 /\ m = 1 -> <<27182, 27183>>
      [] k = 0 /\ m = 2 -> <<73890, 73891>>
      [] k = 0 /\ m = 3 -> <<200855, 200856>>
      [] k = 0 /\ m = 4 -> <<545981, 545982>>
      [] k = 0 /\ m = -1 -> <<3678, 3679>>
      [] k = 0 /\ m = -2 -> <<1353, 1354>>
      [] OTHER -> <<0, 0>>

\* Math.round as it would be were ties rounded away from zero
MathRoundAwayFromZero(a) ==
    IF ~IsRat(a) THEN a
    ELSE IF a.n >= 0 THEN Num(Floor(2 * a.n + a.d, 2 * a.d))
    ELSE Num(-Floor(2 * (-a.n) + a.d, 2 * a.d))

\* Math.round: the integer nearest to a, a tie going up: floor(a + 1/2).
\* A transcendental value is rounded through its bracket; "top" when the
\* bracket does not decide the result.
MathRound(a) ==
    IF a.t # "fin" THEN a
    ELSE IF a.k = 0 /\ a.m = 0 THEN Num(Floor(2 * a.n + a.d, 2 * a.d))
    ELSE LET b == Bracket(a.k, a.m)
             lo == Floor(2 * a.n * b[1] + a.d * 10000, 2 * a.d * 10000)
             hi == Floor(2 * a.n * b[2] + a.d * 10000, 2 * a.d * 10000)
         IN IF b[1] # 0 /\ AbsI(a.n) < 1000 /\ a.d < 100 /\ lo = hi THEN Num(lo)
            ELSE Top

\* ApgRegrCalc.round
round(num, precision) ==
    LET factor == Pow(Num(10), Num(precision))
    IN Div(MathRound(Mul(num, factor)), factor)

\* Math.abs(a) > Math.abs(b) for numbers that are rational or special
AbsGreater(a, b) ==
    CASE a.t = "nan" \/ b.t = "nan" -> FALSE
      [] a.t \in {"inf", "ninf"} -> b.t = "fin"
      [] b.t \in {"inf", "ninf"} -> FALSE
      [] OTHER -> AbsI(a.n) * b.d > AbsI(b.n) * a.d


----------------------------------------------------------------------------
(* Sequences of numbers and points                                         *)

Point(px, py) == [x |-> px, y |-> py]

\* point.y !== null
Present(p) == p.y.t # "null"

RECURSIVE SumSeq(_)
\* reduce((accum, v) => accum + v, 0)
SumSeq(s) ==
    IF s = <<>> THEN Zero ELSE Add(SumSeq(SubSeq(s, 1, Len(s) - 1)), s[Len(s)])

\* a sequence given as a function, as the tuple of its values
Tup(s) == SubSeq(s, 1, Len(s))


Reverse(s) == Tup([i \in 1..Len(s) |-> s[Len(s) + 1 - i]])

\* the points of s whose y is present, in order
Kept(s) == SelectSeq(s, Present)

----------------------------------------------------------------------------
(* ApgRegrCalc.determinationCoefficient                                    *)

\* determinationCoefficient returning the ratio itself, not 1 minus the ratio
determinationCoefficientRatio(apoints, aresults) ==
    LET kept == SelectSeq(Tup([i \in 1..Len(apoints) |->
                                 [o |-> apoints[i], p |-> aresults[i]]]),
                          LAMBDA q : Present(q.o))
        ys == Tup([i \in 1..Len(kept) |-> kept[i].o.y])
        mean == Div(SumSeq(ys), Num(Len(kept)))
    IN Div(SumSeq(Tup([i \in 1..Len(kept) |-> Mul(Sub(kept[i].o.y, kept[i].p.y), Sub(kept[i].o.y, kept[i].p.y))])),
           SumSeq(Tup([i \in 1..Len(ys) |-> Mul(Sub(ys[i], mean), Sub(ys[i], mean))])))

determinationCoefficient(apoints, aresults) ==
    LET pairs == Tup([i \in 1..Len(apoints) |-> [o |-> apoints[i], p |-> aresults[i]]])
        kept == SelectSeq(pairs, LAMBDA q : Present(q.o))
        observations == Tup([i \in 1..Len(kept) |-> kept[i].o])
        predictions == Tup([i \in 1..Len(kept) |-> kept[i].p])
        sum == SumSeq([i \in 1..Len(observations) |-> observations[i].y])
        mean == Div(sum, Num(Len(observations)))
        squaredDeviationFromMean ==
            SumSeq([i \in 1..Len(observations) |->
                      LET difference == Sub(observations[i].y, mean)
                      IN Mul(difference, difference)])
        squardDifferenceFromPredicted ==
            SumSeq([i \in 1..Len(observations) |->
                      LET residual == Sub(observations[i].y, predictions[i].y)
                      IN Mul(residual, residual)])
    IN Sub(One, Div(squardDifferenceFromPredicted, squaredDeviationFromMean))

----------------------------------------------------------------------------
(* ApgRegrCalc.gaussianElimination                                         *)
(* The matrix is input[k][i], k = 1..n+1 (unknown k; n+1 is the right-hand *)
(* side), i = 1..n (equation i): the source's 0-based indices plus one.    *)

\* Math.abs(a) > Math.abs(b) can be decided: both rational or special
Comparable(a, b) == a.t # "top" /\ b.t # "top" /\ (IsFin(a) => IsRat(a)) /\ (IsFin(b) => IsRat(b))

RECURSIVE MaxRow(_, _, _, _, _)
\* the pivot search of row i: j runs from j to n, maxrow is the best so far;
\* 0 when a comparison cannot be decided
MaxRow(matrix, n, i, j, maxrow) ==
    IF j > n THEN maxrow
    ELSE IF ~Comparable(matrix[i][j], matrix[i][maxrow]) THEN 0
    ELSE MaxRow(matrix, n, i, j + 1,
                IF AbsGreater(matrix[i][j], matrix[i][maxrow]) THEN j ELSE maxrow)

\* the pivot step without the exchange of the two equations
SwapRowsSkipped(matrix, n, i, maxrow) == matrix

\* for (k = i; k < n + 1; k++) swap matrix[k][i], matrix[k][maxrow]
SwapRows(matrix, n, i, maxrow) ==
    Tup([k \in 1..(n + 1) |->
           IF k < i THEN matrix[k]
           ELSE [matrix[k] EXCEPT ![i] = matrix[k][maxrow], ![maxrow] = matrix[k][i]]])

\* for (j = i + 1; j < n; j++) for (k = n; k >= i; k--)
\*   matrix[k][j] -= matrix[k][i] * matrix[i][j] / matrix[i][i]
\* (matrix[i][j] is overwritten last, at k = i, so every step reads the old one)
Eliminate(matrix, n, i) ==
    Tup([k \in 1..(n + 1) |->
           Tup([j \in 1..n |->
                  IF k >= i /\ j > i
                  THEN Sub(matrix[k][j], Div(Mul(matrix[k][i], matrix[i][j]), matrix[i][i]))
                  ELSE matrix[k][j]])])

RECURSIVE Forward(_, _, _)
\* the elimination loop from pivot i on; <<>> when a pivot search is undecided
Forward(matrix, n, i) ==
    IF i > n THEN matrix
    ELSE LET maxrow == MaxRow(matrix, n, i, i + 1, i)
         IN IF maxrow = 0 THEN <<>>
            ELSE Forward(Eliminate(SwapRows(matrix, n, i, maxrow), n, i), n, i + 1)

RECURSIVE BackSubstitute(_, _, _, _)
\* coefficients[j] = (matrix[n][j] - total) / matrix[j][j], j from n down to 1
BackSubstitute(matrix, n, j, coefficients) ==
    IF j < 1 THEN coefficients
    ELSE LET total == SumSeq([q \in 1..(n - j) |->
                                Mul(matrix[j + q][j], coefficients[j + q])])
             c == Div(Sub(matrix[n + 1][j], total), matrix[j][j])
         IN BackSubstitute(matrix, n, j - 1, [coefficients EXCEPT ![j] = c])

\* const matrix = input: the elimination is done in the array handed over,
\* which holds this afterwards
eliminated(ainput) ==
    LET matrix == Forward(ainput, Len(ainput) - 1, 1)
    IN IF matrix = <<>> THEN ainput ELSE matrix

gaussianElimination(ainput, order) ==
    LET n == Len(ainput) - 1
        matrix == Forward(ainput, n, 1)
    IN IF n = 0 THEN <<Num(order)>>
       ELSE IF matrix = <<>> THEN Tup([j \in 1..n |-> Top])
       ELSE BackSubstitute(matrix, n, n, Tup([j \in 1..n |-> Zero]))


----------------------------------------------------------------------------
(* The five fit estimators                                                 *)

\* a === 0, where it is known
EqZero(a) == IsFin(a) /\ a.n = 0

\* the points of a sequence, as a set
PointsOf(apoints) == {apoints[i] : i \in 1..Len(apoints)}

\* predictions for the points with a present y only, a point without y kept
\* as it is
predictedOfKept(apoints, predictFn) ==
    Tup([i \in 1..Len(apoints) |->
           IF Present(apoints[i]) THEN predictFn[apoints[i].x] ELSE apoints[i]])

\* apoints.map(point => predictFn(point.x)): predictFn is the function of x
\* the fit has built, given on the x of the points
predictedOf(apoints, predictFn) ==
    Tup([i \in 1..Len(apoints) |-> predictFn[apoints[i].x]])

\* sum[..] += f(apoints[n]) over the points with apoints[n].y !== null
SumOver(apoints, f) ==
    SumSeq(Tup([i \in 1..Len(Kept(apoints)) |-> f[Kept(apoints)[i]]]))

\* len++ inside the y !== null test of linear()
linearLen(apoints) == Len(Kept(apoints))

\* const len = apoints.length of logarithmic() and power()
pointsLength(apoints) == Len(apoints)

Result(apoints, predicted, type, coefficients, equation, r2) ==
    [points |-> apoints, predicted |-> predicted, type |-> type,
     coefficients |-> coefficients, equation |-> equation, r2 |-> r2]

\* the gradient without the run === 0 test
linearGradientUnguarded(run, rise, precision) == round(Div(rise, run), precision)

\* gradient = run === 0 ? 0 : round(rise / run, precision)
linearGradient(run, rise, precision) ==
    IF run.t = "top" THEN Top
    ELSE IF EqZero(run) THEN Zero
    ELSE round(Div(rise, run), precision)

\* intercept = round(sum[1] / len - gradient * sum[0] / len, precision)
linearIntercept(sum0, sum1, len, gradient, precision) ==
    round(Sub(Div(sum1, len), Div(Mul(gradient, sum0), len)), precision)

linear(apoints, aoptions) ==
    LET len == Num(linearLen(apoints))
        sum0 == SumOver(apoints, [p \in PointsOf(apoints) |-> p.x])
        sum1 == SumOver(apoints, [p \in PointsOf(apoints) |-> p.y])
        sum2 == SumOver(apoints, [p \in PointsOf(apoints) |-> Mul(p.x, p.x)])
        sum3 == SumOver(apoints, [p \in PointsOf(apoints) |-> Mul(p.x, p.y)])
        run == Sub(Mul(len, sum2), Mul(sum0, sum0))
        rise == Sub(Mul(len, sum3), Mul(sum0, sum1))
        gradient == linearGradient(run, rise, aoptions.precision)
        intercept == linearIntercept(sum0, sum1, len, gradient, aoptions.precision)
        predictLinearFn[x \in {q.x : q \in PointsOf(apoints)}] ==
            Point(round(x, aoptions.precision),
                  round(Add(Mul(gradient, x), intercept), aoptions.precision))
        predicted == predictedOf(apoints, predictLinearFn)
        r2 == determinationCoefficient(apoints, predicted)
        equation ==
            IF intercept.t = "top" THEN [fmt |-> "?", args |-> <<gradient, intercept>>]
            ELSE IF EqZero(intercept) THEN [fmt |-> "y = {0}x", args |-> <<gradient>>]
            ELSE [fmt |-> "y = {0}x + {1}", args |-> <<gradient, intercept>>]
    IN Result(apoints, predicted, "linear", <<gradient, intercept>>, equation,
              round(r2, aoptions.precision))

exponential(apoints, aoptions) ==
    LET sum0 == SumOver(apoints, [p \in PointsOf(apoints) |-> p.x])
        sum1 == SumOver(apoints, [p \in PointsOf(apoints) |-> p.y])
        sum2 == SumOver(apoints, [p \in PointsOf(apoints) |-> Mul(Mul(p.x, p.x), p.y)])
        sum3 == SumOver(apoints, [p \in PointsOf(apoints) |-> Mul(p.y, MathLog(p.y))])
        sum4 == SumOver(apoints, [p \in PointsOf(apoints) |-> Mul(Mul(p.x, p.y), MathLog(p.y))])
        sum5 == SumOver(apoints, [p \in PointsOf(apoints) |-> Mul(p.x, p.y)])
        denominator == Sub(Mul(sum1, sum2), Mul(sum5, sum5))
        a == MathExp(Div(Sub(Mul(sum2, sum3), Mul(sum5, sum4)), denominator))
        b == Div(Sub(Mul(sum1, sum4), Mul(sum5, sum3)), denominator)
        coeffA == round(a, aoptions.precision)
        coeffB == round(b, aoptions.precision)
        predictExponentialFn[x \in {q.x : q \in PointsOf(apoints)}] ==
            Point(round(x, aoptions.precision),
                  round(Mul(coeffA, MathExp(Mul(coeffB, x))), aoptions.precision))
        predicted == predictedOf(apoints, predictExponentialFn)
        r2 == determinationCoefficient(apoints, predicted)
    IN Result(apoints, predicted, "exponential", <<coeffA, coeffB>>,
              [fmt |-> "y = {0}e^({1}x)", args |-> <<coeffA, coeffB>>],
              round(r2, aoptions.precision))

logarithmic(apoints, aoptions) ==
    LET len == Num(pointsLength(apoints))
        sum0 == SumOver(apoints, [p \in PointsOf(apoints) |-> MathLog(p.x)])
        sum1 == SumOver(apoints, [p \in PointsOf(apoints) |-> Mul(p.y, MathLog(p.x))])
        sum2 == SumOver(apoints, [p \in PointsOf(apoints) |-> p.y])
        sum3 == SumOver(apoints, [p \in PointsOf(apoints) |-> Pow(MathLog(p.x), Num(2))])
        a == Div(Sub(Mul(len, sum1), Mul(sum2, sum0)),
                 Sub(Mul(len, sum3), Mul(sum0, sum0)))
        coeffB == round(a, aoptions.precision)
        coeffA == round(Div(Sub(sum2, Mul(coeffB, sum0)), len), aoptions.precision)
        predictLogaritmicFn[x \in {q.x : q \in PointsOf(apoints)}] ==
            Point(round(x, aoptions.precision),
                  round(Add(coeffA, Mul(coeffB, MathLog(x))), aoptions.precision))
        predicted == predictedOf(apoints, predictLogaritmicFn)
        r2 == determinationCoefficient(apoints, predicted)
    IN Result(apoints, predicted, "logaritmic", <<coeffA, coeffB>>,
              [fmt |-> "y = {0} + {1} ln(x)", args |-> <<coeffA, coeffB>>],
              round(r2, aoptions.precision))

power(apoints, aoptions) ==
    LET len == Num(pointsLength(apoints))
        sum0 == SumOver(apoints, [p \in PointsOf(apoints) |-> MathLog(p.x)])
        sum1 == SumOver(apoints, [p \in PointsOf(apoints) |-> Mul(MathLog(p.y), MathLog(p.x))])
        sum2 == SumOver(apoints, [p \in PointsOf(apoints) |-> MathLog(p.y)])
        sum3 == SumOver(apoints, [p \in PointsOf(apoints) |-> Pow(MathLog(p.x), Num(2))])
        b == Div(Sub(Mul(len, sum1), Mul(sum0, sum2)),
                 Sub(Mul(len, sum3), Pow(sum0, Num(2))))
        a == Div(Sub(sum2, Mul(b, sum0)), len)
        coeffA == round(MathExp(a), aoptions.precision)
        coeffB == round(b, aoptions.precision)
        predictPowerFn[ax \in {q.x : q \in PointsOf(apoints)}] ==
            Point(round(ax, aoptions.precision),
                  round(Mul(coeffA, Pow(ax, coeffB)), aoptions.precision))
        predicted == predictedOf(apoints, predictPowerFn)
        r2 == determinationCoefficient(apoints, predicted)
    IN Result(apoints, predicted, "power", <<coeffA, coeffB>>,
              [fmt |-> "y = {0}x^{1}", args |-> <<coeffA, coeffB>>],
              round(r2, aoptions.precision))

\* the normal equations of polynomial(): rhs[i][j] = sum of x^(i+j), and lhs
\* pushed as the last row; 1-based, so powers are (i - 1) + (j - 1)
normalEquations(apoints, k) ==
    Tup([i \in 1..(k + 1) |->
           IF i <= k
           THEN Tup([j \in 1..k |-> SumOver(apoints, [p \in PointsOf(apoints) |-> Pow(p.x, Num(i + j - 2))])])
           ELSE Tup([j \in 1..k |->
                       SumOver(apoints, [p \in PointsOf(apoints) |-> Mul(Pow(p.x, Num(j - 1)), p.y)])])])

\* coefficients.reduce((sum, coeff, power) => sum + coeff * x ** power, 0)
polyValue(coefficients, x) ==
    SumSeq([i \in 1..Len(coefficients) |-> Mul(coefficients[i], Pow(x, Num(i - 1)))])

\* the equation of polynomial(): terms from i = coefficients.length - 1 down to
\* 0, each with the suffix the loop gives it
polyEquation(coefficients) ==
    [fmt |-> "y = [terms]",
     args |-> Tup([q \in 1..Len(coefficients) |->
                     LET i == Len(coefficients) - q
                     IN [coef |-> coefficients[i + 1], power |-> i,
                         suffix |-> IF i > 1 THEN "x^i + "
                                    ELSE IF i = 1 THEN "x + " ELSE ""]])]

\* the coefficients stored as solved, lowest power first
polyStoredUnreversed(coefficients) == coefficients

\* coefficients: [...coefficients].reverse()
polyStored(coefficients) == Reverse(coefficients)

polynomial(apoints, aoptions) ==
    LET k == aoptions.order + 1
        rhs == normalEquations(apoints, k)
        solved == gaussianElimination(rhs, k)
        coefficients == Tup([i \in 1..Len(solved) |-> round(solved[i], aoptions.precision)])
        predictPolynomialFn[x \in {q.x : q \in PointsOf(apoints)}] ==
            Point(round(x, aoptions.precision),
                  round(polyValue(coefficients, x), aoptions.precision))
        predicted == predictedOf(apoints, predictPolynomialFn)
        r2 == determinationCoefficient(apoints, predicted)
    IN Result(apoints, predicted, "polynomial", polyStored(coefficients),
              polyEquation(coefficients), round(r2, aoptions.precision))


----------------------------------------------------------------------------
(* Bounds and input sets                                                   *)

\* longest point sequence drawn from a point list
MaxPoints == 3

\* entries of the 2 x 2 systems drawn are in -MaxCoef..MaxCoef
MaxCoef == 2

\* numerators of the numbers handed to round are in -MaxNumerator..MaxNumerator
MaxNumerator == 12

DefaultOrder == 2
DefaultPrecision == 3

\* readonly DEFAULT_OPTIONS
DEFAULT_OPTIONS == [order |-> DefaultOrder, precision |-> DefaultPrecision]

Precisions == {0, 1}
Orders == {0, 1, DefaultOrder}

Ln2 == Fin(1, 1, 1, 0)
E(mm) == Fin(1, 1, 0, mm)

\* the sequences of at most n elements of S
SeqsUpTo(S, n) == UNION {[1..q -> S] : q \in 0..n}

\* rational points, one of them without y
PlainPoints ==
    {Point(Num(0), Num(0)), Point(Num(1), Num(0)), Point(Num(1), Null),
     Point(Num(1), Num(1)), Point(Num(2), Num(1))}

\* points of y = e^x at multiples of ln 2, one of them without y
ExpPoints ==
    {Point(Zero, One), Point(Ln2, Null), Point(Ln2, Num(2)),
     Point(Mul(Num(2), Ln2), Num(4))}

\* points of y = 1 + 2 ln x at powers of e, one of them without y
LogPoints ==
    {Point(One, One), Point(E(1), Null), Point(E(1), Num(3)), Point(E(2), Num(5))}

\* points of y = 2 x^2 at powers of two, one of them without y
PowPoints ==
    {Point(One, Num(2)), Point(Num(2), Null), Point(Num(2), Num(8)),
     Point(Num(4), Num(32))}

DrawnPoints ==
    SeqsUpTo(PlainPoints, MaxPoints) \cup SeqsUpTo(ExpPoints, MaxPoints)
    \cup SeqsUpTo(LogPoints, MaxPoints) \cup SeqsUpTo(PowPoints, MaxPoints)

\* single inputs, each with its own precision: the line y = x at the default
\* precision; a pair far from the origin; a line through points that are not
\* multiples of the rounding unit; a line at a negative precision
Examples ==
    {[points |-> <<Point(Num(0), Num(0)), Point(Num(1), Num(1)), Point(Num(2), Num(2))>>,
      precision |-> DefaultPrecision],
     [points |-> <<Point(Num(10), Num(0)), Point(Num(13), Num(1))>>, precision |-> 1],
     [points |-> <<Point(Rat(1, 2), Rat(1, 2)), Point(Rat(3, 2), Rat(3, 2))>>,
      precision |-> 0],
     [points |-> <<Point(Num(0), Num(0)), Point(Num(1), Num(10))>>, precision |-> -1]}

FitInputs == [points : DrawnPoints, precision : Precisions] \cup Examples

NoResult == [type |-> "none"]

----------------------------------------------------------------------------
(* The fits: one call per behaviour, on points and a precision drawn at    *)
(* the start; polynomial() also draws its order                            *)

InitFit ==
    \E in \in FitInputs :
       /\ call = "none"
       /\ points = in.points
       /\ options = [DEFAULT_OPTIONS EXCEPT !.precision = in.precision]
       /\ results = <<>>
       /\ input = <<>>
    /\ system = <<>>
       /\ system = <<>>
       /\ number = Zero
       /\ ret = NoResult

Linear ==
    /\ call = "none"
    /\ call' = "linear"
    /\ ret' = linear(points, options)
    /\ UNCHANGED <<points, options, results, input, system, number>>

Exponential ==
    /\ call = "none"
    /\ call' = "exponential"
    /\ ret' = exponential(points, options)
    /\ UNCHANGED <<points, options, results, input, system, number>>

Logarithmic ==
    /\ call = "none"
    /\ call' = "logaritmic"
    /\ ret' = logarithmic(points, options)
    /\ UNCHANGED <<points, options, results, input, system, number>>

Power ==
    /\ call = "none"
    /\ call' = "power"
    /\ ret' = power(points, options)
    /\ UNCHANGED <<points, options, results, input, system, number>>

Polynomial ==
    /\ call = "none"
    /\ \E order \in Orders :
          /\ options' = [options EXCEPT !.order = order]
          /\ ret' = polynomial(points, options')
    /\ call' = "polynomial"
    /\ UNCHANGED <<points, results, input, system, number>>

NextFit == Linear \/ Exponential \/ Logarithmic \/ Power \/ Polynomial

SpecFit == InitFit /\ [][NextFit]_vars

----------------------------------------------------------------------------
(* round: one call on a number and a precision drawn at the start          *)

RoundPrecisions == {-2, -1, 0, 1, 2}

RoundNumbers ==
    {Rat(nn, dd) : nn \in (-MaxNumerator)..MaxNumerator, dd \in {1, 2, 4, 20}}
    \cup {Rat(12345, 10000), Num(12345), Rat(-12345, 1000), NaN, Inf, NInf}

InitRound ==
    \E precision \in RoundPrecisions :
       /\ call = "none"
       /\ number \in RoundNumbers
       /\ options = [DEFAULT_OPTIONS EXCEPT !.precision = precision]
       /\ points = <<>>
       /\ results = <<>>
       /\ input = <<>>
    /\ system = <<>>
       /\ system = <<>>
       /\ ret = NoResult

Round ==
    /\ call = "none"
    /\ call' = "round"
    /\ ret' = round(number, options.precision)
    /\ UNCHANGED <<points, options, results, input, system, number>>

NextRound == Round

SpecRound == InitRound /\ [][NextRound]_vars

----------------------------------------------------------------------------
(* determinationCoefficient: one call on points and index-aligned          *)
(* predictions drawn at the start                                          *)

ObservedPoints == {Point(Zero, Null), Point(Zero, Zero), Point(Zero, One)}
PredictedPoints == {Point(Zero, Zero), Point(Zero, One)}

InitDet ==
    /\ call = "none"
    /\ points \in SeqsUpTo(ObservedPoints, MaxPoints)
    /\ results \in [1..Len(points) -> PredictedPoints]
    /\ options = DEFAULT_OPTIONS
    /\ input = <<>>
    /\ system = <<>>
    /\ number = Zero
    /\ ret = NoResult

DeterminationCoefficient ==
    /\ call = "none"
    /\ call' = "determinationCoefficient"
    /\ ret' = determinationCoefficient(points, results)
    /\ UNCHANGED <<points, options, results, input, system, number>>

NextDet == DeterminationCoefficient

SpecDet == InitDet /\ [][NextDet]_vars

----------------------------------------------------------------------------
(* gaussianElimination: one call on an augmented system drawn at the start *)

Coefs == {Num(i) : i \in (-MaxCoef)..MaxCoef}

\* every system of two equations with entries in Coefs
Systems2 == [1..3 -> [1..2 -> Coefs]]

\* equations in three unknowns, <<a1, a2, a3, b>> for a1 x + a2 y + a3 z = b
Equations3 ==
    {<<1, 1, 1, 6>>, <<0, 2, 5, -4>>, <<2, 5, -1, 27>>, <<0, 0, 3, -6>>, <<0, 4, 10, -8>>}

\* the system of the equations e1, e2, e3: input[k][i] is entry k of equation i
System3(e1, e2, e3) ==
    [k \in 1..4 |-> <<Num(e1[k]), Num(e2[k]), Num(e3[k])>>]

Systems3 == {System3(e1, e2, e3) : e1 \in Equations3, e2 \in Equations3, e3 \in Equations3}

InitGauss ==
    /\ call = "none"
    /\ input \in Systems2 \cup Systems3
    /\ system = input
    /\ points = <<>>
    /\ results = <<>>
    /\ options = DEFAULT_OPTIONS
    /\ number = Zero
    /\ ret = NoResult

GaussianElimination ==
    /\ call = "none"
    /\ call' = "gaussianElimination"
    /\ ret' = gaussianElimination(input, Len(input) - 1)
    /\ input' = eliminated(input)
    /\ UNCHANGED <<points, options, results, system, number>>

NextGauss == GaussianElimination

SpecGauss == InitGauss /\ [][NextGauss]_vars


----------------------------------------------------------------------------
(* Vocabulary of the properties                                            *)

FitCalls == {"linear", "exponential", "logaritmic", "power", "polynomial"}

AllPresent(pts) == \A i \in 1..Len(pts) : Present(pts[i])
AllRational(pts) == \A i \in 1..Len(pts) : IsRat(pts[i].x) /\ IsRat(pts[i].y)
XsOf(pts) == {pts[i].x : i \in 1..Len(pts)}
YsOf(pts) == {pts[i].y : i \in 1..Len(pts)}
Positive(a) == a.t = "fin" /\ a.n > 0

\* v is a multiple of 10^-p
Representable(v, p) == round(v, p) = v

\* |a - b| <= (1/2) 10^-p
WithinHalfUnit(a, b, p) ==
    LET diff == Sub(a, b)
        half == Div(Rat(1, 2), Pow(Num(10), Num(p)))
    IN IsRat(diff) /\ ~LessRat(half, [diff EXCEPT !.n = AbsI(diff.n)])

\* the value at x of the curve of a kind with the coefficient vector c, in the
\* order the result stores it (polynomial: c[i] taken as the coefficient of
\* x^(Len(c) - i))
CurveValue(kind, c, x) ==
    CASE kind = "linear" -> Add(Mul(c[1], x), c[2])
      [] kind = "exponential" -> Mul(c[1], MathExp(Mul(c[2], x)))
      [] kind = "logaritmic" -> Add(c[1], Mul(c[2], MathLog(x)))
      [] kind = "power" -> Mul(c[1], Pow(x, c[2]))
      [] OTHER -> SumSeq(Tup([i \in 1..Len(c) |-> Mul(c[i], Pow(x, Num(Len(c) - i)))]))

\* the polynomial whose coefficient of x^(i - 1) is c[i], at x
LowToHighValue(c, x) ==
    SumSeq(Tup([i \in 1..Len(c) |-> Mul(c[i], Pow(x, Num(i - 1)))]))

\* the fit of a kind, as a function of the points
FitOf(kind, pts, aoptions) ==
    CASE kind = "linear" -> linear(pts, aoptions)
      [] kind = "exponential" -> exponential(pts, aoptions)
      [] kind = "logaritmic" -> logarithmic(pts, aoptions)
      [] kind = "power" -> power(pts, aoptions)
      [] OTHER -> polynomial(pts, aoptions)

\* least squares without intermediate rounding, all points taken
RefN(pts) == Num(Len(pts))
RefSx(pts) == SumSeq(Tup([i \in 1..Len(pts) |-> pts[i].x]))
RefSy(pts) == SumSeq(Tup([i \in 1..Len(pts) |-> pts[i].y]))
RefSxx(pts) == SumSeq(Tup([i \in 1..Len(pts) |-> Mul(pts[i].x, pts[i].x)]))
RefSxy(pts) == SumSeq(Tup([i \in 1..Len(pts) |-> Mul(pts[i].x, pts[i].y)]))
RefDenominator(pts) == Sub(Mul(RefN(pts), RefSxx(pts)), Mul(RefSx(pts), RefSx(pts)))
RefSlope(pts) ==
    Div(Sub(Mul(RefN(pts), RefSxy(pts)), Mul(RefSx(pts), RefSy(pts))), RefDenominator(pts))
RefIntercept(pts) ==
    Sub(Div(RefSy(pts), RefN(pts)), Mul(RefSlope(pts), Div(RefSx(pts), RefN(pts))))

\* coefficient vectors tried for "the points lie on a curve of the kind"
CoefCandidates == {Num(-1), Zero, Rat(1, 2), One, Num(2), Num(10)}

\* (the exponent of a power curve is kept below 10)
CoefVectors(kind, order) ==
    IF kind = "power"
    THEN {c \in [1..2 -> CoefCandidates] : c[2] # Num(10)}
    ELSE [1..(IF kind = "polynomial" THEN order + 1 ELSE 2) -> CoefCandidates]

\* the points lie exactly on a curve of the kind whose coefficients are
\* multiples of 10^-precision
LiesOnCurve(kind, pts, aoptions) ==
    \E c \in CoefVectors(kind, aoptions.order) :
       /\ \A i \in DOMAIN c : Representable(c[i], aoptions.precision)
       /\ \A j \in 1..Len(pts) : pts[j].y = CurveValue(kind, c, pts[j].x)

\* the determinant of the coefficient part of a system of 2 or 3 equations
Determinant(m) ==
    IF Len(m) = 3
    THEN Sub(Mul(m[1][1], m[2][2]), Mul(m[2][1], m[1][2]))
    ELSE Add(Sub(Mul(m[1][1], Sub(Mul(m[2][2], m[3][3]), Mul(m[3][2], m[2][3]))),
                 Mul(m[2][1], Sub(Mul(m[1][2], m[3][3]), Mul(m[3][2], m[1][3])))),
             Mul(m[3][1], Sub(Mul(m[1][2], m[2][3]), Mul(m[2][2], m[1][3]))))

\* x satisfies equation i of the system m
Satisfies(m, x, i) ==
    SumSeq(Tup([k \in 1..(Len(m) - 1) |-> Mul(m[k][i], x[k])])) = m[Len(m)][i]


----------------------------------------------------------------------------
(* Properties                                                              *)

\* C1: determinationCoefficient returns NaN whenever fewer than 2 of the
\* points have a present y, whatever the predictions are.
C1_NaNBelowTwoKeptPoints ==
    (call = "determinationCoefficient" /\ Len(Kept(points)) < 2) => ret = NaN

\* C2: for each of the five fits, points with an absent y take no part in the
\* coefficients: the coefficients of the points equal the coefficients of the
\* points with the absent-y points removed.
C2_AbsentYTakesNoPart ==
    call \in FitCalls =>
       ret.coefficients = FitOf(call, Kept(points), options).coefficients

\* C3: for every fit and every input, predicted has the length of points;
\* predicted[i] is the prediction of the returned curve at points[i].x rounded
\* to precision, with predicted[i].x = points[i].x rounded to precision, also
\* at an absent-y point; and result.points is the input sequence itself.
C3_PredictedAlignedWithPoints ==
    call \in FitCalls =>
       /\ ret.points = points
       /\ Len(ret.predicted) = Len(points)
       /\ \A i \in 1..Len(points) :
             /\ ret.predicted[i].x = round(points[i].x, options.precision)
             /\ ret.predicted[i].y =
                   round(CurveValue(call, ret.coefficients, points[i].x), options.precision)

\* an absent-y point in the middle of three has been given a finite prediction
C3_Witness ==
    /\ call \in FitCalls
    /\ Len(points) = 3
    /\ ~Present(points[2]) /\ Present(points[1]) /\ Present(points[3])
    /\ Len(ret.predicted) = 3
    /\ IsRat(ret.predicted[2].y)

\* C4 as stated: for every fit, when the points (all y present, at least two)
\* lie exactly on a curve of the kind with coefficients representable at the
\* precision, r2 is 1 -- constant lines and polynomials included.
C4_PerfectFitHasR2One ==
    (/\ call \in FitCalls
     /\ Len(points) >= 2
     /\ AllPresent(points)
     /\ LiesOnCurve(call, points, options)) => ret.r2 = One

\* what C4 leaves out: a precision of at least 0, observed y values that are
\* multiples of the rounding unit and not all equal, positive arguments of
\* every logarithm taken, and order + 1 distinct x for a polynomial
WellPosed(kind, pts, aoptions) ==
    /\ aoptions.precision >= 0
    /\ \A i \in 1..Len(pts) : Representable(pts[i].y, aoptions.precision)
    /\ Cardinality(YsOf(pts)) >= 2
    /\ kind \in {"logaritmic", "power"} => \A i \in 1..Len(pts) : Positive(pts[i].x)
    /\ kind \in {"exponential", "power"} => \A i \in 1..Len(pts) : Positive(pts[i].y)
    /\ kind = "polynomial" => Cardinality(XsOf(pts)) >= aoptions.order + 1

\* C4 amended: under the conditions of C4 and WellPosed, r2 is 1.
C4_WellPosedPerfectFitHasR2One ==
    (/\ call \in FitCalls
     /\ Len(points) >= 2
     /\ AllPresent(points)
     /\ WellPosed(call, points, options)
     /\ LiesOnCurve(call, points, options)) => ret.r2 = One

\* a logarithmic fit of three points of y = 1 + 2 ln x has returned r2 = 1
C4_Witness ==
    /\ call = "logaritmic"
    /\ Len(points) = 3
    /\ AllPresent(points)
    /\ Cardinality(XsOf(points)) = 3
    /\ LiesOnCurve(call, points, options)
    /\ WellPosed(call, points, options)
    /\ ret.coefficients = <<One, Num(2)>>
    /\ ret.r2 = One

\* C5: for rational points with all y present and at least 2 distinct x, the
\* gradient and the intercept of linear() are both within half a unit of
\* 10^-precision of the least-squares slope and intercept computed without
\* intermediate rounding.
C5_LinearWithinHalfUnitOfReference ==
    (/\ call = "linear"
     /\ AllPresent(points)
     /\ AllRational(points)
     /\ Cardinality(XsOf(points)) >= 2) =>
       /\ WithinHalfUnit(ret.coefficients[1], RefSlope(points), options.precision)
       /\ WithinHalfUnit(ret.coefficients[2], RefIntercept(points), options.precision)

\* C6: for rational points with all y present and at least 2 distinct x,
\* polynomial() with order 1 returns the coefficients and the r2 of linear().
C6_PolynomialOrderOneIsLinear ==
    (/\ call = "linear"
     /\ AllPresent(points)
     /\ AllRational(points)
     /\ Cardinality(XsOf(points)) >= 2) =>
       LET q == polynomial(points, [options EXCEPT !.order = 1])
       IN q.coefficients = ret.coefficients /\ q.r2 = ret.r2

\* C7 as stated: the coefficients of polynomial() are stored low-to-high:
\* result.coefficients[i] is the coefficient of x^i (1-based: entry i, power
\* i - 1), in the predictions and in the equation, whose terms run from the
\* highest power to the lowest.
C7_StoredLowToHigh ==
    call = "polynomial" =>
       LET c == ret.coefficients
           terms == ret.equation.args
       IN /\ Len(c) = options.order + 1
          /\ \A j \in 1..Len(points) :
                ret.predicted[j].y = round(LowToHighValue(c, points[j].x), options.precision)
          /\ \A q \in 1..Len(terms) :
                /\ terms[q].power = Len(terms) - q
                /\ terms[q].coef = c[terms[q].power + 1]

\* C7 amended: the coefficients of polynomial() are stored high-to-low:
\* result.coefficients[i] is the coefficient of x^(order - i) (1-based: entry
\* i, power order + 1 - i), in the predictions and in the equation, whose
\* terms run from the highest power to the lowest, in the order of the vector.
C7_StoredHighToLow ==
    call = "polynomial" =>
       LET c == ret.coefficients
           terms == ret.equation.args
       IN /\ Len(c) = options.order + 1
          /\ Len(terms) = Len(c)
          /\ \A j \in 1..Len(points) :
                ret.predicted[j].y =
                   round(SumSeq(Tup([i \in 1..Len(c) |->
                            Mul(c[i], Pow(points[j].x, Num(options.order + 1 - i)))])),
                         options.precision)
          /\ \A q \in 1..Len(terms) :
                /\ terms[q].power = options.order + 1 - q
                /\ terms[q].coef = c[q]

\* the order-2 fit of three points of y = 2 x^2 has stored <<2, 0, 0>>
C7_Witness ==
    /\ call = "polynomial"
    /\ options.order = 2
    /\ Cardinality(XsOf(points)) = 3
    /\ \A i \in 1..Len(points) :
          Present(points[i]) /\ points[i].y = Mul(Num(2), Mul(points[i].x, points[i].x))
    /\ ret.coefficients = <<Num(2), Zero, Zero>>

C9_RoundsHalfAwayFromZero ==
    (call = "round" /\ IsRat(number)) =>
       LET factor == Pow(Num(10), Num(options.precision))
           scaled == Mul(number, factor)
           mag == [scaled EXCEPT !.n = AbsI(scaled.n)]
           nearest == Floor(2 * mag.n + mag.d, 2 * mag.d)
       IN ret = Div(Num(IF scaled.n < 0 THEN -nearest ELSE nearest), factor)

\* C9 amended: round(number, precision) is i / 10^precision for the integer i
\* with number * 10^precision - 1/2 < i <= number * 10^precision + 1/2: the
\* nearest integer, a tie rounded up (towards +Infinity).
C9_RoundsHalfUp ==
    (call = "round" /\ IsRat(number)) =>
       LET factor == Pow(Num(10), Num(options.precision))
           scaled == Mul(number, factor)
           i == Mul(ret, factor)
       IN /\ IsRat(i) /\ i.d = 1
          /\ LessRat(Sub(scaled, Rat(1, 2)), i)
          /\ ~LessRat(Add(scaled, Rat(1, 2)), i)

\* the negative tie -2.5 has been rounded at precision 0, to -2
C9_Witness ==
    /\ call = "round"
    /\ number = Rat(-5, 2)
    /\ options.precision = 0
    /\ ret = Num(-2)

\* C10: in linear(), when n * Sxx - Sx^2 over the y-present points is zero
\* (they share one x, or there is at most one), the gradient is exactly 0, the
\* intercept is the mean of the present y rounded to precision (NaN without a
\* present point), and a full result record is returned.
C10_ZeroDenominatorGivesZeroGradient ==
    (/\ call = "linear"
     /\ \/ IsZero(RefDenominator(Kept(points)))
        \/ Cardinality(XsOf(Kept(points))) <= 1) =>
       /\ ret.coefficients[1] = Zero
       /\ ret.coefficients[2] =
             IF Kept(points) = <<>> THEN NaN
             ELSE round(Div(RefSy(Kept(points)), RefN(Kept(points))), options.precision)
       /\ DOMAIN ret = {"points", "predicted", "type", "coefficients", "equation", "r2"}
       /\ ret.type = "linear"
       /\ Len(ret.predicted) = Len(points)

\* three present points sharing one x with different y have been fitted
C10_Witness ==
    /\ call = "linear"
    /\ Len(Kept(points)) = 3
    /\ Cardinality(XsOf(Kept(points))) = 1
    /\ Cardinality(YsOf(Kept(points))) = 2
    /\ ret.coefficients[1] = Zero
    /\ IsRat(ret.coefficients[2])


====
